---- MODULE Spec2Model ----
(***************************************************************************)
(* Model of the temperature collector (src/server.c) and of its producers  *)
(* (src/client.c).                                                         *)
(*                                                                         *)
(* Temperatures (C double) are modelled as integers counting thousandths   *)
(* of a degree, so 22500 stands for 22.5; an average is the exact quotient *)
(* sum / count, kept as a pair <<numerator, denominator>>.  Floating-point *)
(* rounding is outside the model.                                          *)
(***************************************************************************)
EXTENDS Integers, Sequences, FiniteSets, TLC

(* ------------------------------ bounds --------------------------------- *)
\* capacity of the circular buffer; the program uses 1024 (src/server.c:20),
\* the model a small window so that eviction happens within a few pushes
MAX_SAMPLES == 2
\* temperatures pushed in the sequential specification
SeqTemps == {-1500, 1000, 2000, 3000, 4000}
\* number of pushes of the sequential specification
SeqMaxPushes == MAX_SAMPLES + 2

\* pids of the producers
Producers == {7, 8}
\* the temperatures each producer sends (22500 is 22.5 degrees); the readings
\* reach the collector in any order of the producers
Temps(p) == IF p = 7 THEN {22500} ELSE {1000}
\* number of MsgSend calls the producers make altogether
MaxPushes == 3
\* number of times the clock advances
MaxTicks == 2

(* --------------------------- program constants ------------------------- *)
PERIOD_SECONDS == 5
REPLY_SIZE == 128

\* the clock is observed every ClockStep seconds
ClockStep == PERIOD_SECONDS
MaxTime == MaxTicks * ClockStep

(* ------------------------------- state --------------------------------- *)
VARIABLES
    buffer,     \* circbuf_t buffer: samples, head, count
    buf_mutex,  \* buffer.buf_mutex: "free" or the thread that holds it
    shm,        \* *shm_stats: avg, minimum, maximum, count, last_updated
    shm_mutex,  \* shm_stats->mutex: "uninit", "free" or its holder
    mpc,        \* position of the main thread (startup, then the message loop)
    status,     \* exit status of the process, -1 while it runs
    attached,   \* the name SERVER_NAME is registered (name_attach succeeded)
    rmsg,       \* main: temp_msg_t rmsg
    rcvid,      \* main: int rcvid
    tpc,        \* position of timer_thread, "none" before pthread_create
    loc,        \* timer: locals of buffer_compute_stats (sum, mm, Mx, i)
    out,        \* the out-parameters of the last buffer_compute_stats call
    wake,       \* timer: the time at which the current sleep() ends
    now,        \* the clock read by time(NULL), in seconds
    cl,         \* the producers: position, message sent, reply buffer
    rdr,        \* an external reader of the region: "idle" or "locked"
    history,    \* ghost: the values pushed so far, in push order
    agg_n,      \* ghost: number of pushes applied when `out' was computed, -1 before
    nsent,      \* ghost: number of MsgSend calls made by the producers
    failed,     \* ghost: the startup calls that have failed
    pub,        \* ghost: the last completed publish
    rcvd,       \* ghost: the temperatures received so far, in the order of receipt
    req,        \* reply specification: the payload of the request being answered
    sent,       \* reply specification: the buffer and byte count handed to MsgReply
    spc         \* two-collector specification: position of a second collector process

(* --------------------------- circular buffer --------------------------- *)
Slots == 0 .. (MAX_SAMPLES - 1)

\* static circbuf_t buffer (zero-initialised) after buffer_init
buffer_init == [samples |-> [i \in Slots |-> 0], head |-> 0, count |-> 0]

PushStoreAhead(b, val) == [b EXCEPT !.samples[(b.head + 1) % MAX_SAMPLES] = val]

\* b->samples[b->head] = val;
PushStore(b, val) == [b EXCEPT !.samples[b.head] = val]

PushAdvanceNoWrap(b) == [b EXCEPT !.head = b.head + 1]

\* b->head = (b->head + 1) % MAX_SAMPLES;
PushAdvance(b) == [b EXCEPT !.head = (b.head + 1) % MAX_SAMPLES]

PushCountUncapped(b) == [b EXCEPT !.count = b.count + 1]

\* if (b->count < MAX_SAMPLES) b->count++;
PushCount(b) == IF b.count < MAX_SAMPLES THEN [b EXCEPT !.count = b.count + 1] ELSE b

\* the body of buffer_push between lock and unlock
buffer_push(b, val) == PushCount(PushAdvance(PushStore(b, val)))

RECURSIVE GCD(_, _)
GCD(a, b) == IF b = 0 THEN a ELSE GCD(b, a % b)

Abs(n) == IF n < 0 THEN -n ELSE n

\* the double quotient s / n for n > 0, as a fraction in lowest terms
Quot(s, n) == LET g == GCD(Abs(s), n) IN <<s \div g, n \div g>>

\* the double 0.0
Zero == <<0, 1>>

\* the branch taken when b->count == 0
ComputeEmpty == [avg |-> Zero, min |-> 0, max |-> 0, count |-> 0]

StatsStartZero(b) == [sum |-> 0, mm |-> 0, Mx |-> 0, i |-> 0]

\* double sum = 0.0; double mm = b->samples[0]; double Mx = b->samples[0]; int i = 0
StatsStart(b) == [sum |-> 0, mm |-> b.samples[0], Mx |-> b.samples[0], i |-> 0]

\* the slot read by iteration i of the loop
SlotIndex(b, i) == (b.head + MAX_SAMPLES - b.count + i) % MAX_SAMPLES

\* one iteration of the for loop
StatsIter(b, l) ==
    LET v == b.samples[SlotIndex(b, l.i)]
    IN  [sum |-> l.sum + v,
         mm  |-> IF v < l.mm THEN v ELSE l.mm,
         Mx  |-> IF v > l.Mx THEN v ELSE l.Mx,
         i   |-> l.i + 1]

RECURSIVE StatsLoop(_, _)
StatsLoop(b, l) == IF l.i < b.count THEN StatsLoop(b, StatsIter(b, l)) ELSE l

\* *avg = sum / b->count; *min = mm; *max = Mx; *count = b->count;
StatsResult(b, l) == [avg |-> Quot(l.sum, b.count), min |-> l.mm, max |-> l.Mx, count |-> b.count]

\* the body of buffer_compute_stats between lock and unlock
buffer_compute_stats(b) ==
    IF b.count = 0 THEN ComputeEmpty ELSE StatsResult(b, StatsLoop(b, StatsStart(b)))

(* ------------------- what an aggregate is supposed to be ---------------- *)
RECURSIVE SeqSum(_)
SeqSum(s) == IF s = <<>> THEN 0 ELSE s[1] + SeqSum(Tail(s))

SeqRange(s) == {s[i] : i \in 1 .. Len(s)}

\* the last n elements of s (all of s when it is shorter)
LastN(s, n) == IF Len(s) <= n THEN s ELSE SubSeq(s, Len(s) - n + 1, Len(s))

\* r is the exact aggregate of the values of the non-empty sequence s
IsAggregateOf(r, s) ==
    /\ r.count = Len(s)
    /\ r.min \in SeqRange(s) /\ \A v \in SeqRange(s) : r.min <= v
    /\ r.max \in SeqRange(s) /\ \A v \in SeqRange(s) : r.max >= v
    /\ r.avg[2] > 0 /\ r.avg[1] * Len(s) = SeqSum(s) * r.avg[2]

\* r is the aggregate of the window holding the values of s
IsWindowAggregate(r, s) == IF s = <<>> THEN r = ComputeEmpty ELSE IsAggregateOf(r, s)

(* ------------------------------ acknowledgment -------------------------- *)
Digit(d) == <<"0", "1", "2", "3", "4", "5", "6", "7", "8", "9">>[d + 1]

RECURSIVE FmtNat(_)
FmtNat(n) == IF n < 10 THEN Digit(n) ELSE FmtNat(n \div 10) \o Digit(n % 10)

\* conversion %d
FmtInt(n) == IF n < 0 THEN "-" \o FmtNat(-n) ELSE FmtNat(n)

\* conversion %.3f of the temperature t (thousandths of a degree)
Fmt3(t) ==
    (IF t < 0 THEN "-" ELSE "") \o FmtNat(Abs(t) \div 1000) \o "."
        \o Digit((Abs(t) \div 100) % 10) \o Digit((Abs(t) \div 10) % 10) \o Digit(Abs(t) % 10)

snprintf_ack_prec2(size, temp, pid) ==
    LET full == "ACK: received " \o FmtNat(Abs(temp) \div 1000) \o "."
                    \o Digit((Abs(temp) \div 100) % 10) \o Digit((Abs(temp) \div 10) % 10)
                    \o " from pid " \o FmtInt(pid)
    IN  [buf     |-> IF Len(full) < size THEN full ELSE SubSeq(full, 1, size - 1),
         written |-> Len(full)]

\* snprintf(reply_msg, size, "ACK: received %.3f from pid %d", temp, pid):
\* buf is the text stored (at most size - 1 characters and a NUL), written
\* the value returned (the length of the untruncated text)
snprintf_ack_text(size, tempText, pid) ==
    LET full == "ACK: received " \o tempText \o " from pid " \o FmtInt(pid)
    IN  [buf     |-> IF Len(full) < size THEN full ELSE SubSeq(full, 1, size - 1),
         written |-> Len(full)]

snprintf_ack(size, temp, pid) == snprintf_ack_text(size, Fmt3(temp), pid)

\* A double is either a number of thousandths, <<"milli", t>>, or a power of
\* two too large for that, <<"pow2", k>> (2^k is a double for k <= 1023).
\* Decimal digits of a natural number are kept most significant first.
Dbl(s) ==
    LET n == Len(s)
        low(i) == ((2 * s[i]) % 10) + (IF i < n /\ s[i + 1] >= 5 THEN 1 ELSE 0)
    IN  (IF s[1] >= 5 THEN <<1>> ELSE <<>>) \o [i \in 1 .. n |-> low(i)]

\* s doubled n times
RECURSIVE DblN(_, _)
DblN(s, n) ==
    IF n = 0 THEN s
    ELSE IF n = 1 THEN Dbl(s)
    ELSE LET h == DblN(s, n \div 2)
         IN  IF Len(h) = 0 THEN h ELSE DblN(h, n - (n \div 2))

Pow2Digits(k) == DblN(<<1>>, k)

RECURSIVE FmtDigits(_)
FmtDigits(s) == IF s = <<>> THEN "" ELSE Digit(s[1]) \o FmtDigits(Tail(s))

\* conversion %.3f of a double: all the digits of the integer part, a point
\* and three decimals
FmtDouble(d) == IF d[1] = "milli" THEN Fmt3(d[2]) ELSE FmtDigits(Pow2Digits(d[2])) \o ".000"

\* the buffer and the byte count MsgReply(rcvid, EOK, reply_msg, written + 1)
\* is given
MsgReplyArgs(r) == [buf |-> r.buf, nbytes |-> r.written + 1]

(* ------------------------------ initial state --------------------------- *)
ZeroMsg == [type |-> 0, pid |-> 0, temp |-> 0]

NoLoc == [sum |-> 0, mm |-> 0, Mx |-> 0, i |-> 0]

\* no request being answered, nothing handed to MsgReply
NoReq == [pid |-> 0, temp |-> <<"none", 0>>]
NoSent == [buf |-> "", nbytes |-> 0]

\* no publish yet
NoPub == [stats |-> ComputeEmpty, ts |-> 0, n |-> -1]

\* the numeric fields of the region, named as the out-parameters are
Num(r) == [avg |-> r.avg, min |-> r.minimum, max |-> r.maximum, count |-> r.count]

\* the process at the entry of main, after buffer_init; the region is a
\* newly created, zero-filled object
Init ==
    /\ buffer = buffer_init
    /\ buf_mutex = "free"
    /\ shm = [avg |-> Zero, minimum |-> 0, maximum |-> 0, count |-> 0, last_updated |-> 0]
    /\ shm_mutex = "uninit"
    /\ mpc = "shm_open"
    /\ status = -1
    /\ attached = FALSE
    /\ rmsg = ZeroMsg
    /\ rcvid = -1
    /\ tpc = "none"
    /\ loc = NoLoc
    /\ out = ComputeEmpty
    /\ wake = 0
    /\ now = 0
    /\ cl = [p \in Producers |-> [pc |-> "start", temp |-> 0, rbuf |-> ""]]
    /\ rdr = "idle"
    /\ history = <<>>
    /\ agg_n = -1
    /\ nsent = 0
    /\ failed = {}
    /\ pub = NoPub
    /\ rcvd = <<>>
    /\ req = NoReq
    /\ sent = NoSent
    /\ spc = "off"

bufVars == <<buffer, buf_mutex>>
shmVars == <<shm, shm_mutex>>
mainVars == <<mpc, status, attached, rmsg, rcvid, failed>>
timerVars == <<tpc, loc, out, wake, agg_n, pub>>
envVars == <<now, cl, rdr, nsent>>
auxVars == <<req, sent, spc>>
vars == <<buffer, buf_mutex, shm, shm_mutex, mpc, status, attached, rmsg, rcvid,
          tpc, loc, out, wake, now, cl, rdr, history, agg_n, nsent, failed, pub,
          rcvd, req, sent, spc>>

(* --------------------------- main: initialisation ----------------------- *)
StartupCallNoReturn(at, next) ==
    /\ mpc = at
    /\ \/ mpc' = next /\ status' = status /\ failed' = failed
       \/ mpc' = next /\ status' = status /\ failed' = failed \cup {at}

\* a startup call that either succeeds (go to `next') or fails (perror; return 1)
StartupCall(at, next) ==
    /\ mpc = at
    /\ \/ mpc' = next /\ status' = status /\ failed' = failed
       \/ mpc' = "exit" /\ status' = 1 /\ failed' = failed \cup {at}

\* shm_open(SHM_NAME, O_CREAT | O_RDWR, 0666)
MainShmOpen ==
    /\ StartupCall("shm_open", "ftruncate")
    /\ UNCHANGED <<auxVars, rcvd, bufVars, shmVars, attached, rmsg, rcvid, timerVars, envVars, history>>

\* ftruncate(shm_fd, shm_size)
MainFtruncate ==
    /\ StartupCall("ftruncate", "mmap")
    /\ UNCHANGED <<auxVars, rcvd, bufVars, shmVars, attached, rmsg, rcvid, timerVars, envVars, history>>

\* mmap(...); shm_stats = addr
MainMmap ==
    /\ StartupCall("mmap", "mutex_init")
    /\ UNCHANGED <<auxVars, rcvd, bufVars, shmVars, attached, rmsg, rcvid, timerVars, envVars, history>>

\* pthread_mutex_init(&shm_stats->mutex, &mattr)
MainMutexInit ==
    /\ mpc = "mutex_init"
    /\ shm_mutex' = "free"
    /\ mpc' = "init_avg"
    /\ UNCHANGED <<auxVars, rcvd, bufVars, shm, status, attached, rmsg, rcvid, failed, timerVars, envVars, history>>

\* shm_stats->avg = 0; ... shm_stats->last_updated = time(NULL): one store each
MainInitField ==
    /\ \/ mpc = "init_avg" /\ shm' = [shm EXCEPT !.avg = Zero] /\ mpc' = "init_min"
       \/ mpc = "init_min" /\ shm' = [shm EXCEPT !.minimum = 0] /\ mpc' = "init_max"
       \/ mpc = "init_max" /\ shm' = [shm EXCEPT !.maximum = 0] /\ mpc' = "init_count"
       \/ mpc = "init_count" /\ shm' = [shm EXCEPT !.count = 0] /\ mpc' = "init_ts"
       \/ mpc = "init_ts" /\ shm' = [shm EXCEPT !.last_updated = now] /\ mpc' = "name_attach"
    /\ UNCHANGED <<auxVars, rcvd, bufVars, shm_mutex, status, attached, rmsg, rcvid, failed, timerVars, envVars, history>>

\* name_attach(NULL, SERVER_NAME, 0)
MainNameAttach ==
    /\ StartupCall("name_attach", "pthread_create")
    /\ attached' = (mpc' = "pthread_create")
    /\ UNCHANGED <<auxVars, rcvd, bufVars, shmVars, rmsg, rcvid, timerVars, envVars, history>>

\* pthread_create(&tid, NULL, timer_thread, NULL); on failure main returns
\* and the process, with its registered name, is gone
MainPthreadCreate ==
    /\ StartupCall("pthread_create", "recv")
    /\ tpc' = IF mpc' = "recv" THEN "sleep_call" ELSE tpc
    /\ attached' = (mpc' = "recv")
    /\ UNCHANGED <<auxVars, rcvd, bufVars, shmVars, rmsg, rcvid, loc, out, wake, agg_n, pub, envVars, history>>

(* --------------------------- main: message loop ------------------------- *)
\* memset(&rmsg, 0, sizeof(rmsg)); rcvid = MsgReceive(...): the message of a
\* producer blocked in MsgSend is copied and the producer waits for the reply
MainReceive ==
    /\ mpc = "recv"
    /\ \E p \in Producers :
        /\ cl[p].pc = "send"
        /\ rmsg' = [type |-> 1, pid |-> p, temp |-> cl[p].temp]
        /\ rcvid' = p
        /\ cl' = [cl EXCEPT ![p].pc = "reply"]
        /\ rcvd' = Append(rcvd, cl[p].temp)
    /\ mpc' = "recv_ret"
    /\ UNCHANGED <<auxVars, bufVars, shmVars, status, attached, failed, timerVars, now, rdr, nsent, history>>

\* MsgReceive returns -1
MainReceiveFail ==
    /\ mpc = "recv"
    /\ rmsg' = ZeroMsg
    /\ rcvid' = -1
    /\ mpc' = "recv_ret"
    /\ UNCHANGED <<auxVars, rcvd, bufVars, shmVars, status, attached, failed, timerVars, envVars, history>>

MainReceiveCheckNoPush ==
    /\ mpc = "recv_ret"
    /\ mpc' = IF rcvid = -1 THEN "recv" ELSE "reply"
    /\ UNCHANGED <<auxVars, rcvd, bufVars, shmVars, status, attached, rmsg, rcvid, failed, timerVars, envVars, history>>

MainReceiveCheckNoContinue ==
    /\ mpc = "recv_ret"
    /\ mpc' = "push_lock"
    /\ UNCHANGED <<auxVars, rcvd, bufVars, shmVars, status, attached, rmsg, rcvid, failed, timerVars, envVars, history>>

MainReceiveCheckBreak ==
    /\ mpc = "recv_ret"
    /\ mpc' = IF rcvid = -1 THEN "cleanup" ELSE "push_lock"
    /\ UNCHANGED <<auxVars, rcvd, bufVars, shmVars, status, attached, rmsg, rcvid, failed, timerVars, envVars, history>>

\* if (rcvid == -1) { perror; continue; }
MainReceiveCheck ==
    /\ mpc = "recv_ret"
    /\ mpc' = IF rcvid = -1 THEN "recv" ELSE "push_lock"
    /\ UNCHANGED <<auxVars, rcvd, bufVars, shmVars, status, attached, rmsg, rcvid, failed, timerVars, envVars, history>>

MainPushLockNoWait ==
    /\ mpc = "push_lock"
    /\ buf_mutex' = "main"
    /\ history' = Append(history, rmsg.temp)
    /\ mpc' = "push_store"
    /\ UNCHANGED <<auxVars, rcvd, buffer, shmVars, status, attached, rmsg, rcvid, failed, timerVars, envVars>>

\* buffer_push: pthread_mutex_lock(&b->buf_mutex)
MainPushLock ==
    /\ mpc = "push_lock"
    /\ buf_mutex = "free"
    /\ buf_mutex' = "main"
    /\ history' = Append(history, rmsg.temp)
    /\ mpc' = "push_store"
    /\ UNCHANGED <<auxVars, rcvd, buffer, shmVars, status, attached, rmsg, rcvid, failed, timerVars, envVars>>

\* buffer_push: the three statements of the critical section, one at a time
MainPushStep ==
    /\ \/ mpc = "push_store" /\ buffer' = PushStore(buffer, rmsg.temp) /\ mpc' = "push_head"
       \/ mpc = "push_head" /\ buffer' = PushAdvance(buffer) /\ mpc' = "push_count"
       \/ mpc = "push_count" /\ buffer' = PushCount(buffer) /\ mpc' = "push_unlock"
    /\ UNCHANGED <<auxVars, rcvd, buf_mutex, shmVars, status, attached, rmsg, rcvid, failed, timerVars, envVars, history>>

MainPushUnlockKeep ==
    /\ mpc = "push_unlock"
    /\ mpc' = "touch_lock"
    /\ UNCHANGED <<auxVars, rcvd, bufVars, shmVars, status, attached, rmsg, rcvid, failed, timerVars, envVars, history>>

\* buffer_push: pthread_mutex_unlock(&b->buf_mutex)
MainPushUnlock ==
    /\ mpc = "push_unlock"
    /\ buf_mutex' = "free"
    /\ mpc' = "touch_lock"
    /\ UNCHANGED <<auxVars, rcvd, buffer, shmVars, status, attached, rmsg, rcvid, failed, timerVars, envVars, history>>

\* pthread_mutex_lock(&shm_stats->mutex)
MainTouchLock ==
    /\ mpc = "touch_lock"
    /\ shm_mutex = "free"
    /\ shm_mutex' = "main"
    /\ mpc' = "touch_ts"
    /\ UNCHANGED <<auxVars, rcvd, bufVars, shm, status, attached, rmsg, rcvid, failed, timerVars, envVars, history>>

MainTouchStale ==
    /\ mpc = "touch_ts"
    /\ shm' = [shm EXCEPT !.last_updated = IF now >= ClockStep THEN now - ClockStep ELSE now]
    /\ mpc' = "touch_unlock"
    /\ UNCHANGED <<auxVars, rcvd, bufVars, shm_mutex, status, attached, rmsg, rcvid, failed, timerVars, envVars, history>>

MainTouchAlsoCount ==
    /\ mpc = "touch_ts"
    /\ shm' = [shm EXCEPT !.last_updated = now, !.count = buffer.count]
    /\ mpc' = "touch_unlock"
    /\ UNCHANGED <<auxVars, rcvd, bufVars, shm_mutex, status, attached, rmsg, rcvid, failed, timerVars, envVars, history>>

\* shm_stats->last_updated = time(NULL)
MainTouch ==
    /\ mpc = "touch_ts"
    /\ shm' = [shm EXCEPT !.last_updated = now]
    /\ mpc' = "touch_unlock"
    /\ UNCHANGED <<auxVars, rcvd, bufVars, shm_mutex, status, attached, rmsg, rcvid, failed, timerVars, envVars, history>>

MainTouchUnlockNoReply ==
    /\ mpc = "touch_unlock"
    /\ shm_mutex' = "free"
    /\ mpc' = "recv"
    /\ UNCHANGED <<auxVars, rcvd, bufVars, shm, status, attached, rmsg, rcvid, failed, timerVars, envVars, history>>

\* pthread_mutex_unlock(&shm_stats->mutex)
MainTouchUnlock ==
    /\ mpc = "touch_unlock"
    /\ shm_mutex' = "free"
    /\ mpc' = "reply"
    /\ UNCHANGED <<auxVars, rcvd, bufVars, shm, status, attached, rmsg, rcvid, failed, timerVars, envVars, history>>

\* written = snprintf(reply_msg, ...); MsgReply(rcvid, EOK, reply_msg, written + 1):
\* the text is copied into the rbuf of the producer rcvid names, whose MsgSend
\* returns; the iteration ends and with it the locals rmsg and rcvid
MainReply ==
    /\ mpc = "reply"
    /\ LET r == snprintf_ack(REPLY_SIZE, rmsg.temp, rmsg.pid)
       IN  cl' = [cl EXCEPT ![rcvid].pc = "got", ![rcvid].rbuf = r.buf]
    /\ rmsg' = ZeroMsg
    /\ rcvid' = -1
    /\ mpc' = "recv"
    /\ UNCHANGED <<auxVars, rcvd, bufVars, shmVars, status, attached, failed, timerVars, now, rdr, nsent, history>>

(* ------------------------------ timer_thread ---------------------------- *)
\* sleep(PERIOD_SECONDS) is entered
TimerSleepCall ==
    /\ tpc = "sleep_call"
    /\ wake' = now + PERIOD_SECONDS
    /\ tpc' = "sleeping"
    /\ UNCHANGED <<auxVars, rcvd, bufVars, shmVars, mainVars, loc, out, agg_n, pub, envVars, history>>

TimerWakeEarly ==
    /\ tpc = "sleeping"
    /\ wake' = 0
    /\ tpc' = "cs_lock"
    /\ UNCHANGED <<auxVars, rcvd, bufVars, shmVars, mainVars, loc, out, agg_n, pub, envVars, history>>

\* sleep(PERIOD_SECONDS) returns, not before PERIOD_SECONDS have passed
TimerWake ==
    /\ tpc = "sleeping"
    /\ now >= wake
    /\ wake' = 0
    /\ tpc' = "cs_lock"
    /\ UNCHANGED <<auxVars, rcvd, bufVars, shmVars, mainVars, loc, out, agg_n, pub, envVars, history>>

\* buffer_compute_stats: pthread_mutex_lock(&b->buf_mutex)
TimerComputeLock ==
    /\ tpc = "cs_lock"
    /\ buf_mutex = "free"
    /\ buf_mutex' = "timer"
    /\ agg_n' = Len(history)
    /\ tpc' = "cs_check"
    /\ UNCHANGED <<auxVars, rcvd, buffer, shmVars, mainVars, loc, out, wake, pub, envVars, history>>

\* buffer_compute_stats: if (b->count == 0) { zero outputs } else the locals are set
TimerComputeCheck ==
    /\ tpc = "cs_check"
    /\ IF buffer.count = 0
       THEN out' = ComputeEmpty /\ loc' = loc /\ tpc' = "cs_unlock"
       ELSE out' = out /\ loc' = StatsStart(buffer) /\ tpc' = "cs_loop"
    /\ UNCHANGED <<auxVars, rcvd, bufVars, shmVars, mainVars, wake, agg_n, pub, envVars, history>>

\* buffer_compute_stats: one iteration of the loop, or the stores after it
TimerComputeLoop ==
    /\ tpc = "cs_loop"
    /\ IF loc.i < buffer.count
       THEN out' = out /\ loc' = StatsIter(buffer, loc) /\ tpc' = "cs_loop"
       ELSE out' = StatsResult(buffer, loc) /\ loc' = NoLoc /\ tpc' = "cs_unlock"
    /\ UNCHANGED <<auxVars, rcvd, bufVars, shmVars, mainVars, wake, agg_n, pub, envVars, history>>

TimerComputeUnlockKeep ==
    /\ tpc = "cs_unlock"
    /\ tpc' = "pub_lock"
    /\ UNCHANGED <<auxVars, rcvd, bufVars, shmVars, mainVars, loc, out, wake, agg_n, pub, envVars, history>>

\* buffer_compute_stats: pthread_mutex_unlock(&b->buf_mutex); return
TimerComputeUnlock ==
    /\ tpc = "cs_unlock"
    /\ buf_mutex' = "free"
    /\ tpc' = "pub_lock"
    /\ UNCHANGED <<auxVars, rcvd, buffer, shmVars, mainVars, loc, out, wake, agg_n, pub, envVars, history>>

TimerPubLockNoLock ==
    /\ tpc = "pub_lock"
    /\ tpc' = "pub_avg"
    /\ UNCHANGED <<auxVars, rcvd, bufVars, shmVars, mainVars, loc, out, wake, agg_n, pub, envVars, history>>

\* pthread_mutex_lock(&shm_stats->mutex)
TimerPubLock ==
    /\ tpc = "pub_lock"
    /\ shm_mutex = "free"
    /\ shm_mutex' = "timer"
    /\ tpc' = "pub_avg"
    /\ UNCHANGED <<auxVars, rcvd, bufVars, shm, mainVars, loc, out, wake, agg_n, pub, envVars, history>>

\* shm_stats->avg = avg; ... shm_stats->last_updated = time(NULL): one store each
TimerPubField ==
    /\ \/ tpc = "pub_avg" /\ shm' = [shm EXCEPT !.avg = out.avg] /\ tpc' = "pub_min"
       \/ tpc = "pub_min" /\ shm' = [shm EXCEPT !.minimum = out.min] /\ tpc' = "pub_max"
       \/ tpc = "pub_max" /\ shm' = [shm EXCEPT !.maximum = out.max] /\ tpc' = "pub_count"
       \/ tpc = "pub_count" /\ shm' = [shm EXCEPT !.count = out.count] /\ tpc' = "pub_ts"
       \/ tpc = "pub_ts" /\ shm' = [shm EXCEPT !.last_updated = now] /\ tpc' = "pub_unlock"
    /\ UNCHANGED <<auxVars, rcvd, bufVars, shm_mutex, mainVars, loc, out, wake, agg_n, pub, envVars, history>>

TimerPubUnlockKeep ==
    /\ tpc = "pub_unlock"
    /\ pub' = [stats |-> out, ts |-> shm.last_updated, n |-> agg_n]
    /\ out' = ComputeEmpty
    /\ agg_n' = -1
    /\ tpc' = "sleep_call"
    /\ UNCHANGED <<auxVars, rcvd, bufVars, shmVars, mainVars, loc, wake, envVars, history>>

\* pthread_mutex_unlock(&shm_stats->mutex); printf: one publish cycle is
\* complete and the locals avg, min, max, count of the loop body are gone
TimerPubUnlock ==
    /\ tpc = "pub_unlock"
    /\ shm_mutex' = "free"
    /\ pub' = [stats |-> out, ts |-> shm.last_updated, n |-> agg_n]
    /\ out' = ComputeEmpty
    /\ agg_n' = -1
    /\ tpc' = "sleep_call"
    /\ UNCHANGED <<auxVars, rcvd, bufVars, shm, mainVars, loc, wake, envVars, history>>

(* ------------------------------ environment ----------------------------- *)
\* ClockStep seconds pass
Tick ==
    /\ now < MaxTime
    /\ now' = now + ClockStep
    /\ UNCHANGED <<auxVars, rcvd, bufVars, shmVars, mainVars, timerVars, cl, rdr, nsent, history>>

\* client.c: name_open(SERVER_NAME, 0); the producer returns 1 when it fails
ClientOpen(p) ==
    /\ cl[p].pc = "start"
    /\ cl' = [cl EXCEPT ![p].pc = IF attached THEN "loop" ELSE "exit"]
    /\ UNCHANGED <<auxVars, rcvd, bufVars, shmVars, mainVars, timerVars, now, rdr, nsent, history>>

\* client.c: msg.pid = getpid(); msg.temp = ...; MsgSend(coid, &msg, ...) blocks
ClientSend(p) ==
    /\ cl[p].pc = "loop"
    /\ status = -1
    /\ nsent < MaxPushes
    /\ \E t \in Temps(p) : cl' = [cl EXCEPT ![p].pc = "send", ![p].temp = t]
    /\ nsent' = nsent + 1
    /\ UNCHANGED <<auxVars, rcvd, bufVars, shmVars, mainVars, timerVars, now, rdr, history>>

\* client.c: printf of the reply, nanosleep; msg and rbuf end with the iteration
ClientPrint(p) ==
    /\ cl[p].pc = "got"
    /\ cl' = [cl EXCEPT ![p] = [pc |-> "loop", temp |-> 0, rbuf |-> ""]]
    /\ UNCHANGED <<auxVars, rcvd, bufVars, shmVars, mainVars, timerVars, now, rdr, nsent, history>>

\* client.c: MsgSend returns -1 (the collector is gone); break
ClientSendFail(p) ==
    /\ cl[p].pc \in {"loop", "send"}
    /\ status # -1
    /\ cl' = [cl EXCEPT ![p] = [pc |-> "exit", temp |-> 0, rbuf |-> ""]]
    /\ UNCHANGED <<auxVars, rcvd, bufVars, shmVars, mainVars, timerVars, now, rdr, nsent, history>>

\* a process that has mapped the region takes its mutex to read the record
ReaderLock ==
    /\ rdr = "idle"
    /\ shm_mutex = "free"
    /\ shm_mutex' = "reader"
    /\ rdr' = "locked"
    /\ UNCHANGED <<auxVars, rcvd, bufVars, shm, mainVars, timerVars, now, cl, nsent, history>>

ReaderUnlock ==
    /\ rdr = "locked"
    /\ shm_mutex' = "free"
    /\ rdr' = "idle"
    /\ UNCHANGED <<auxVars, rcvd, bufVars, shm, mainVars, timerVars, now, cl, nsent, history>>

Main ==
    \/ MainShmOpen \/ MainFtruncate \/ MainMmap \/ MainMutexInit \/ MainInitField
    \/ MainNameAttach \/ MainPthreadCreate
    \/ MainReceive \/ MainReceiveFail \/ MainReceiveCheck
    \/ MainPushLock \/ MainPushStep \/ MainPushUnlock
    \/ MainTouchLock \/ MainTouch \/ MainTouchUnlock \/ MainReply

Timer ==
    \/ TimerSleepCall \/ TimerWake
    \/ TimerComputeLock \/ TimerComputeCheck \/ TimerComputeLoop \/ TimerComputeUnlock
    \/ TimerPubLock \/ TimerPubField \/ TimerPubUnlock

Env ==
    \/ Tick
    \/ \E p \in Producers : ClientOpen(p) \/ ClientSend(p) \/ ClientPrint(p) \/ ClientSendFail(p)
    \/ ReaderLock \/ ReaderUnlock

Next == Main \/ Timer \/ Env

Spec == Init /\ [][Next]_vars

(* ----------------------- sequential specification ----------------------- *)
\* buffer_push and buffer_compute_stats called one after the other by one
\* thread, on the buffer as buffer_init leaves it
SeqPush ==
    /\ Len(history) < SeqMaxPushes
    /\ \E val \in SeqTemps :
        /\ buffer' = buffer_push(buffer, val)
        /\ history' = Append(history, val)
    /\ UNCHANGED <<auxVars, rcvd, buf_mutex, shmVars, mainVars, timerVars, envVars>>

SeqCompute ==
    /\ out' = buffer_compute_stats(buffer)
    /\ agg_n' = Len(history)
    /\ UNCHANGED <<auxVars, rcvd, bufVars, shmVars, mainVars, tpc, loc, wake, pub, envVars, history>>

NextSeq == SeqPush \/ SeqCompute

SpecSeq == Init /\ [][NextSeq]_vars

(* ------------------------------- scheduling ----------------------------- *)
\* a step of main other than MsgReceive
MainProceeds ==
    \/ MainShmOpen \/ MainFtruncate \/ MainMmap \/ MainMutexInit \/ MainInitField
    \/ MainNameAttach \/ MainPthreadCreate \/ MainReceiveCheck
    \/ MainPushLock \/ MainPushStep \/ MainPushUnlock
    \/ MainTouchLock \/ MainTouch \/ MainTouchUnlock \/ MainReply

\* Both threads are scheduled and time passes; a mutex that is released
\* again and again is eventually given to the thread waiting for it; a process
\* that reads the region releases its mutex; MsgReceive eventually returns
\* the request of each producer blocked in MsgSend (requests are queued in
\* the channel).
Fairness ==
    /\ SF_vars(MainProceeds)
    /\ \A p \in Producers : SF_vars(MainReceive /\ rcvid' = p)
    /\ SF_vars(Timer)
    /\ WF_vars(Tick)
    /\ WF_vars(ReaderUnlock)

SpecFair == Spec /\ Fairness

(* ----------------------- a second collector process --------------------- *)
\* While the collector runs, the same program is started again. Its
\* shm_open(O_CREAT | O_RDWR) opens the existing object, ftruncate to the same
\* size and mmap leave the contents as they are: it now maps the region the
\* running collector publishes to.
SecondStart ==
    /\ spc = "off"
    /\ mpc \in {"recv", "recv_ret", "push_lock", "push_store", "push_head", "push_count",
                "push_unlock", "touch_lock", "touch_ts", "touch_unlock", "reply"}
    /\ spc' = "mutex_init"
    /\ UNCHANGED <<bufVars, shmVars, mainVars, timerVars, envVars, history, rcvd, req, sent>>

\* pthread_mutex_init on the mutex of the mapped region, which is in use:
\* the behaviour is undefined; the mutex is reset or keeps its state
SecondMutexInit ==
    /\ spc = "mutex_init"
    /\ shm_mutex' \in {"free", shm_mutex}
    /\ spc' = "init_avg"
    /\ UNCHANGED <<bufVars, shm, mainVars, timerVars, envVars, history, rcvd, req, sent>>

\* shm_stats->avg = 0; ... shm_stats->last_updated = time(NULL), without the mutex
SecondInitField ==
    /\ \/ spc = "init_avg" /\ shm' = [shm EXCEPT !.avg = Zero] /\ spc' = "init_min"
       \/ spc = "init_min" /\ shm' = [shm EXCEPT !.minimum = 0] /\ spc' = "init_max"
       \/ spc = "init_max" /\ shm' = [shm EXCEPT !.maximum = 0] /\ spc' = "init_count"
       \/ spc = "init_count" /\ shm' = [shm EXCEPT !.count = 0] /\ spc' = "init_ts"
       \/ spc = "init_ts" /\ shm' = [shm EXCEPT !.last_updated = now] /\ spc' = "name_attach"
    /\ UNCHANGED <<bufVars, shm_mutex, mainVars, timerVars, envVars, history, rcvd, req, sent>>

\* name_attach fails, the name being registered by the running collector:
\* perror; return 1
SecondNameAttach ==
    /\ spc = "name_attach"
    /\ attached
    /\ spc' = "exit"
    /\ UNCHANGED <<bufVars, shmVars, mainVars, timerVars, envVars, history, rcvd, req, sent>>

Second == SecondStart \/ SecondMutexInit \/ SecondInitField \/ SecondNameAttach

\* the two collectors, one producer and a reading process
NextTwo ==
    \/ Main \/ Timer \/ Second
    \/ Tick
    \/ ClientOpen(7) \/ ClientSend(7) \/ ClientPrint(7) \/ ClientSendFail(7)
    \/ ReaderLock \/ ReaderUnlock

SpecTwo == Init /\ [][NextTwo]_vars

(* ---------------------- the reply, for any payload ---------------------- *)
\* The payload is accepted as it arrives: any pid and any double.
PayloadPids == {-2147483647, -1, 0, 7, 8, 2147483647}
PayloadTemps ==
    {<<"milli", t>> : t \in {-1500, 0, 15000, 22500, 40000, 123456789}}
        \cup {<<"pow2", k>> : k \in {31, 64, 200, 292, 293, 325, 326, 1023}}

\* MsgReceive fills rmsg
ReplyReceive ==
    /\ \E p \in PayloadPids, d \in PayloadTemps : req' = [pid |-> p, temp |-> d]
    /\ sent' = NoSent
    /\ UNCHANGED <<bufVars, shmVars, mainVars, timerVars, envVars, history, rcvd, spc>>

\* snprintf into reply_msg, then MsgReply
ReplySend ==
    /\ req # NoReq
    /\ sent = NoSent
    /\ sent' = MsgReplyArgs(snprintf_ack_text(REPLY_SIZE, FmtDouble(req.temp), req.pid))
    /\ UNCHANGED <<bufVars, shmVars, mainVars, timerVars, envVars, history, rcvd, req, spc>>

NextReply == ReplyReceive \/ ReplySend

SpecReply == Init /\ [][NextReply]_vars

(* -------------------------------- claims -------------------------------- *)
\* the window after the first k pushes of the history
WindowAfter(k) == LastN(SubSeq(history, 1, k), MAX_SAMPLES)

\* the newest value of the window: the slot before the next-write position
Newest == buffer.samples[(buffer.head + MAX_SAMPLES - 1) % MAX_SAMPLES]

\* C1: after N <= capacity pushes, buffer_compute_stats returns count = N and
\* the exact minimum, maximum and average of exactly those N values; for
\* N = 0 it returns average, minimum, maximum and count all zero.
C1_ExactUpToCapacity ==
    (agg_n = Len(history) /\ Len(history) <= MAX_SAMPLES) =>
        /\ IsWindowAggregate(out, history)
        /\ out.count = Len(history)
        /\ (Len(history) = 0 => out = [avg |-> Zero, min |-> 0, max |-> 0, count |-> 0])

\* a window filled to capacity in descending order has been aggregated:
\* pushes 3.0, -1.5 give average 0.75, minimum -1.5, maximum 3.0
C1_Witness ==
    /\ agg_n = Len(history)
    /\ history = <<3000, -1500>>
    /\ out = [avg |-> <<750, 1>>, min |-> -1500, max |-> 3000, count |-> 2]

\* C2: after N > capacity pushes, buffer_compute_stats returns count =
\* capacity and the minimum, maximum and average of exactly the capacity most
\* recently pushed values (FIFO eviction).
C2_OnlyMostRecent ==
    (agg_n = Len(history) /\ Len(history) > MAX_SAMPLES) =>
        /\ out.count = MAX_SAMPLES
        /\ IsAggregateOf(out, LastN(history, MAX_SAMPLES))

\* pushes 1.0, 2.0, 3.0 into the window of two have been aggregated: the
\* evicted 1.0 is gone, average 2.5, minimum 2.0, maximum 3.0
C2_Witness ==
    /\ agg_n = Len(history)
    /\ history = <<1000, 2000, 3000>>
    /\ out = [avg |-> <<2500, 1>>, min |-> 2000, max |-> 3000, count |-> 2]

\* C3: under every interleaving of the listener's pushes with the publisher's
\* aggregate computations, each aggregate returned is the aggregate of the
\* window as it stands after some prefix of the pushes.
C3_NoTornAggregate ==
    tpc \in {"cs_unlock", "pub_lock", "pub_avg", "pub_min", "pub_max", "pub_count",
             "pub_ts", "pub_unlock"} =>
        \E k \in 0 .. Len(history) : IsWindowAggregate(out, WindowAfter(k))

\* an aggregate of a full window has been returned while the listener is in
\* the middle of the push that evicts a value of that window
C3_Witness ==
    /\ tpc = "pub_lock"
    /\ mpc = "push_head"
    /\ out.count = MAX_SAMPLES
    /\ out.min < out.max
    /\ Len(history) = MAX_SAMPLES + 1

\* C4: the push of a request's temperature is fully applied, and the window
\* mutex released, before the reply is sent: when a producer is unblocked by
\* its reply, its reading is the most recently pushed value of the window.
C4_PushedBeforeReply ==
    [][\A p \in Producers :
        (cl[p].pc = "reply" /\ cl'[p].pc = "got") =>
            /\ Newest = cl[p].temp
            /\ history # <<>> /\ history[Len(history)] = cl[p].temp
            /\ buffer.count >= 1
            /\ buf_mutex # "main"]_vars

\* a producer has just been unblocked by the reply to its second reading
C4_Witness ==
    /\ cl[7].pc = "got"
    /\ mpc = "recv"
    /\ history = <<1000, 22500>>
    /\ cl[7].temp = 22500
    /\ Newest = 22500

C6_NoLockNesting ==
    /\ ~(buf_mutex = "main" /\ shm_mutex = "main")
    /\ ~(buf_mutex = "timer" /\ shm_mutex = "timer")
    /\ mpc \in {"recv", "recv_ret"} => buf_mutex # "main"
    /\ tpc \in {"sleep_call", "sleeping"} => buf_mutex # "timer"
    /\ buf_mutex = "main" => mpc \in {"push_store", "push_head", "push_count", "push_unlock"}
    /\ buf_mutex = "timer" => tpc \in {"cs_check", "cs_loop", "cs_unlock"}

\* both mutexes are held at once, by different threads
C6_Witness ==
    /\ buf_mutex = "main"
    /\ shm_mutex = "timer"

\* C7: if no push lies between the aggregate computations of two consecutive
\* publish cycles, the second publish leaves average, minimum, maximum and
\* count as the first wrote them and writes a strictly greater last_updated.
C7_IdlePeriod ==
    (tpc = "pub_unlock" /\ pub.n >= 0 /\ agg_n = pub.n) =>
        /\ Num(shm) = pub.stats
        /\ shm.last_updated > pub.ts

\* the second publish of a non-empty window with no push since the first
C7_Witness ==
    /\ tpc = "pub_unlock"
    /\ pub.n >= 1
    /\ agg_n = pub.n
    /\ shm.count >= 1
    /\ shm.last_updated = pub.ts + PERIOD_SECONDS

\* the text "ACK: received <t, 3 decimals> from pid <p>"
AckText(t, p) == "ACK: received " \o Fmt3(t) \o " from pid " \o FmtInt(p)

\* C8: the reply delivered to a producer is the acknowledgment built from the
\* temperature and the pid of the request that producer sent; (7, 22.5)
\* yields "ACK: received 22.500 from pid 7".
C8_ReplyMatchesRequest ==
    \A p \in Producers :
        cl[p].pc = "got" =>
            /\ cl[p].rbuf = AckText(cl[p].temp, p)
            /\ (p = 7 /\ cl[p].temp = 22500) => cl[p].rbuf = "ACK: received 22.500 from pid 7"
            /\ (p = 8 /\ cl[p].temp = 1000) => cl[p].rbuf = "ACK: received 1.000 from pid 8"

\* producer 7 holds the reply to 22.5 while producer 8 is blocked sending 1.0
C8_Witness ==
    /\ cl[7].pc = "got"
    /\ cl[7].temp = 22500
    /\ cl[7].rbuf = "ACK: received 22.500 from pid 7"
    /\ cl[8].pc = "send"
    /\ cl[8].temp = 1000

\* the listener, having received or failed to receive, takes its next step
ListenerStepAfterFailure == mpc = "recv_ret" /\ rcvid = -1 /\ mpc' # mpc

\* the receive call returns -1
ReceiveFails == mpc = "recv" /\ mpc' = "recv_ret" /\ rcvid' = -1

\* C9: when the receive call fails the listener returns to the receive call
\* with window, region and producers unchanged (nothing pushed, nothing
\* published, no reply), and the loop goes on.
C9_ReceiveFailureHarmless ==
    [][/\ ReceiveFails =>
            UNCHANGED <<buffer, buf_mutex, shm, shm_mutex, cl, history, status>>
       /\ ListenerStepAfterFailure =>
            /\ mpc' = "recv"
            /\ status' = -1
            /\ UNCHANGED <<buffer, buf_mutex, shm, shm_mutex, cl, history>>]_vars

\* a receive call has failed while a producer is blocked in its send, after
\* a reading was accepted and a publish completed
C9_Witness ==
    /\ mpc = "recv_ret"
    /\ rcvid = -1
    /\ history # <<>>
    /\ pub.n >= 1
    /\ \E p \in Producers : cl[p].pc = "send"

\* the startup calls the claim names
RegionOrNameCalls == {"shm_open", "ftruncate", "mmap", "name_attach"}

\* C10: if creating, sizing or mapping the region or registering the name
\* fails, the collector terminates with a failure status and does not retry:
\* it never runs the listener loop, the publisher is never started, and no
\* request is received or replied to.
C10_StartupFailureFatal ==
    /\ [](failed \cap RegionOrNameCalls # {} =>
            /\ mpc = "exit"
            /\ status = 1
            /\ tpc = "none"
            /\ history = <<>>
            /\ rcvid = -1
            /\ \A p \in Producers : cl[p].pc \in {"start", "exit"})
    /\ [][failed # {} => (mpc' = "exit" /\ failed' = failed /\ tpc' = tpc)]_vars

\* the name registration has failed after the region was initialised; a
\* producer has found no name to open
C10_Witness ==
    /\ failed = {"name_attach"}
    /\ status = 1
    /\ shm_mutex = "free"
    /\ \E p \in Producers : cl[p].pc = "exit"

(* C11: for every payload the listener accepts, any temperature and any
   producer id, the reply handed to the channel is NUL-terminated text whose
   length with the terminator is at most 128 bytes, the size of the buffer it
   is sent from. *)
C11_ReplyFitsBuffer ==
    sent # NoSent => /\ sent.nbytes <= REPLY_SIZE
                     /\ sent.nbytes = Len(sent.buf) + 1

\* the positions of main in the receive loop, and of the publish step of
\* timer_thread
ListenerPcs == {"recv", "recv_ret", "push_lock", "push_store", "push_head", "push_count",
                "push_unlock", "touch_lock", "touch_ts", "touch_unlock", "reply"}
PublishPcs == {"pub_avg", "pub_min", "pub_max", "pub_count", "pub_ts"}

(* C12: handling an accepted reading changes at most last_updated in the
   region: no step of the receive loop changes avg, minimum, maximum or count,
   and once the timer thread runs these four change only in a step of its
   publish step, made with the region mutex held. *)
C12_ListenerTouchesTimestampOnly ==
    [][/\ (mpc \in ListenerPcs /\ mpc' # mpc) => Num(shm)' = Num(shm)
       /\ (tpc # "none" /\ Num(shm)' # Num(shm)) =>
              tpc \in PublishPcs /\ tpc' # tpc /\ shm_mutex = "timer"]_vars

\* the listener has stamped the region after a publish of a non-empty window:
\* the timestamp moved, the four numbers are those published
C12_Witness ==
    /\ mpc = "touch_unlock"
    /\ pub.n >= 1
    /\ shm.last_updated # pub.ts
    /\ Num(shm) = pub.stats

\* the smaller of two numbers
Min2(a, b) == IF a <= b THEN a ELSE b

(* C13: whenever the buffer mutex is free, 0 <= count <= capacity and
   0 <= head < capacity; after k completed pushes count = min(k, capacity)
   and head = k mod capacity; count never decreases. *)
C13_CountAndHead ==
    /\ [](buf_mutex = "free" =>
            /\ 0 <= buffer.count /\ buffer.count <= MAX_SAMPLES
            /\ 0 <= buffer.head /\ buffer.head < MAX_SAMPLES
            /\ buffer.count = Min2(Len(history), MAX_SAMPLES)
            /\ buffer.head = Len(history) % MAX_SAMPLES)
    /\ [][buffer.count' >= buffer.count]_vars

\* one push more than the capacity has completed: the count is capped and
\* the position has wrapped
C13_Witness ==
    /\ buf_mutex = "free"
    /\ Len(history) = MAX_SAMPLES + 1
    /\ buffer.count = MAX_SAMPLES
    /\ buffer.head = 1
    /\ mpc = "reply"

(* C14: with at least one retained value, the oldest retained value is in
   the slot capacity slots behind the next-write position modulo capacity
   (index (head - capacity) mod capacity), for every count from 1 to
   capacity. *)
C14_OldestCapacityBehind ==
    buffer.count >= 1 =>
        buffer.samples[(buffer.head + MAX_SAMPLES - MAX_SAMPLES) % MAX_SAMPLES]
            = WindowAfter(Len(history))[1]

(* C14, amended: the oldest retained value is count slots behind the
   next-write position modulo capacity, the i-th oldest i slots after it, and
   these are the slots the aggregation loop reads; the oldest is capacity
   slots behind the next-write position exactly when the window is full. *)
C14_OldestCountBehind ==
    buffer.count >= 1 =>
        /\ \A i \in 0 .. buffer.count - 1 :
              /\ buffer.samples[(buffer.head + MAX_SAMPLES - buffer.count + i) % MAX_SAMPLES]
                    = WindowAfter(Len(history))[i + 1]
              /\ SlotIndex(buffer, i) = (buffer.head + MAX_SAMPLES - buffer.count + i) % MAX_SAMPLES
        /\ (buffer.count = MAX_SAMPLES) <=> (SlotIndex(buffer, 0) = buffer.head)

\* a window that is not full: the oldest value is in slot 0, not in the slot
\* of the next-write position
C14_Witness ==
    /\ buffer.count = 1
    /\ buffer.head = 1
    /\ buffer.samples[0] = history[1]
    /\ buffer.samples[buffer.head] # history[1]

\* the producers whose request has been received and not yet replied to
Unanswered == {p \in Producers : cl[p].pc = "reply"}

\* s is a prefix of t
IsPrefix(s, t) == Len(s) <= Len(t) /\ s = SubSeq(t, 1, Len(s))

(* C15: the listener handles one request at a time: between a receive and
   its reply no other request is received; every received request gets
   exactly one reply; readings enter the window in the order in which their
   requests were received, however many producers send concurrently. *)
C15_OneRequestAtATime ==
    /\ [](/\ Cardinality(Unanswered) <= 1
          /\ \A p \in Unanswered : rcvid = p /\ mpc \in ListenerPcs \ {"recv"}
          /\ mpc = "recv" => Unanswered = {} /\ history = rcvd
          /\ IsPrefix(history, rcvd) /\ Len(rcvd) <= Len(history) + 1
          /\ (mpc = "recv" /\ buffer.count >= 1) =>
                \A i \in 0 .. buffer.count - 1 :
                    buffer.samples[SlotIndex(buffer, i)] = LastN(rcvd, MAX_SAMPLES)[i + 1])
    /\ [][/\ \A p \in Producers :
               (cl[p].pc = "reply" /\ cl[p].pc' # "reply") =>
                   mpc = "reply" /\ rcvid = p /\ cl[p].pc' = "got" /\ mpc' = "recv"
          /\ (mpc = "reply" /\ mpc' # mpc) =>
                   cl[rcvid].pc = "reply" /\ cl'[rcvid].pc = "got"
          /\ Len(rcvd') > Len(rcvd) => Unanswered = {}]_vars

\* two producers send concurrently: the request of 8 was handled first, that
\* of 7 is being handled while 8 is already blocked in its next send
C15_Witness ==
    /\ cl[7].pc = "reply"
    /\ cl[8].pc = "send"
    /\ mpc = "push_unlock"
    /\ rcvd = <<1000, 22500>>
    /\ history = rcvd

\* a thread waits for a mutex the other thread holds
MainWaitsForTimer ==
    \/ mpc = "push_lock" /\ buf_mutex = "timer"
    \/ mpc = "touch_lock" /\ shm_mutex = "timer"
TimerWaitsForMain ==
    \/ tpc = "cs_lock" /\ buf_mutex = "main"
    \/ tpc = "pub_lock" /\ shm_mutex = "main"

\* producer p is blocked in MsgSend on the channel of the running collector
Blocked(p) == cl[p].pc \in {"send", "reply"} /\ tpc # "none"

\* the timer thread is between two cycles, or in a sleep that ends beyond the
\* horizon of the clock
BetweenCycles == tpc \in {"none", "sleep_call"} \/ (tpc = "sleeping" /\ wake > MaxTime)

(* C16: the collector never deadlocks and every request is answered. No
   state has each thread waiting for a mutex the other holds; a producer
   blocked in a send leaves it only by being received and then replied to;
   under fair scheduling, with receives that succeed and holders of the region
   mutex that release it, no producer stays blocked for ever, and every cycle
   of the publisher that starts within the horizon of the clock runs to the
   end of its publish. *)
C16_NoDeadlockAllAnswered ==
    /\ [](~(MainWaitsForTimer /\ TimerWaitsForMain))
    /\ [][\A p \in Producers :
            (Blocked(p) /\ cl'[p].pc # cl[p].pc) =>
                \/ cl[p].pc = "send" /\ cl'[p].pc = "reply"
                \/ cl[p].pc = "reply" /\ cl'[p].pc = "got"]_vars
    /\ \A p \in Producers : []<>(~Blocked(p))
    /\ []<>BetweenCycles

\* one producer is blocked in its send and the other waits for its reply
\* while the listener waits for the region mutex, held by the publisher
C16_Witness ==
    /\ cl[7].pc = "send"
    /\ cl[8].pc = "reply"
    /\ mpc = "touch_lock"
    /\ shm_mutex = "timer"
    /\ tpc \in PublishPcs

(* C17: the listener is suspended only in the receive call and the publisher
   only in its sleep: in no state does the listener wait for a mutex the
   publisher holds, nor the publisher for a mutex the listener holds. *)
C17_NeverWaitsForOther == ~MainWaitsForTimer /\ ~TimerWaitsForMain

(* C17, amended: either thread can wait for a mutex the other holds, but the
   holder of a mutex is then inside the critical section of that mutex, a
   straight run of stores with no receive, no sleep and no wait for another
   mutex; the receive call and the sleep are entered with no mutex held. *)
C17_WaitsOnlyForCriticalSections ==
    /\ buf_mutex = "main" <=> mpc \in {"push_store", "push_head", "push_count", "push_unlock"}
    /\ shm_mutex = "main" <=> mpc \in {"touch_ts", "touch_unlock"}
    /\ buf_mutex = "timer" <=> tpc \in {"cs_check", "cs_loop", "cs_unlock"}
    /\ shm_mutex = "timer" <=> tpc \in PublishPcs \cup {"pub_unlock"}

\* the listener waits for the buffer mutex while the publisher reads the
\* window, and a producer waits for the reply
C17_Witness ==
    /\ mpc = "push_lock"
    /\ buf_mutex = "timer"
    /\ tpc = "cs_loop"
    /\ cl[rcvid].pc = "reply"

\* the positions of timer_thread
TimerPcs == {"sleep_call", "sleeping", "cs_lock", "cs_check", "cs_loop", "cs_unlock",
             "pub_lock", "pub_unlock"} \cup PublishPcs

(* C18: the cleanup path is unreachable: once the collector is running, for
   every sequence of accepted requests and receive failures, main stays in
   its receive loop with the name attached and the region in place, and the
   timer thread stays in its loop; neither loop exits. *)
C18_CleanupUnreachable ==
    /\ [](mpc \in ListenerPcs => attached /\ status = -1 /\ tpc \in TimerPcs)
    /\ [][/\ mpc \in ListenerPcs => mpc' \in ListenerPcs
          /\ tpc \in TimerPcs => tpc' \in TimerPcs]_vars

\* the collector is still in its loop after accepted requests, a receive
\* failure and the last period of the clock
C18_Witness ==
    /\ mpc = "recv_ret"
    /\ rcvid = -1
    /\ Len(history) >= 2
    /\ pub.n >= 1
    /\ now = MaxTime
    /\ attached

(* C19: write access to the region is exclusive to the running collector's
   publisher and the listener's timestamp touch: while a collector runs no
   other step changes a field of the region or re-initialises its mutex; a
   second collector whose name registration fails leaves the fields and the
   mutex as the running collector last wrote them. *)
C19_RegionWritesExclusive ==
    [][/\ (mpc \in ListenerPcs /\ shm' # shm) =>
             ((mpc = "touch_ts" /\ mpc' # mpc) \/ (tpc \in PublishPcs /\ tpc' # tpc))
       /\ (mpc \in ListenerPcs /\ spc' # spc) =>
             (shm' = shm /\ shm_mutex' = shm_mutex)]_vars

(* C20: with a clock that never goes backwards, last_updated never
   decreases, under every interleaving of the listener's timestamp store and
   the publisher's: each writer reads the clock while it holds the region
   mutex, so a later store never writes an older time than an earlier one. *)
C20_TimestampMonotone ==
    /\ [][shm.last_updated' >= shm.last_updated]_vars
    /\ [][shm.last_updated' # shm.last_updated =>
            /\ shm.last_updated' = now
            /\ (mpc \in ListenerPcs) => (shm_mutex \in {"main", "timer"})]_vars

\* the listener has stored a later time than the publisher's last publish,
\* and the publisher is about to store its own
C20_Witness ==
    /\ pub.ts = ClockStep
    /\ shm.last_updated = 2 * ClockStep
    /\ tpc = "pub_ts"
    /\ mpc \in ListenerPcs

============================================================================
